---- MODULE Spec2Model ----
(***************************************************************************)
(* Model of the LGA text parser and column normaliser of                   *)
(* src/app/population_density.py (parse_lga_text, clean_lga_data).         *)
(*                                                                         *)
(* Text is a sequence of characters; a character is a one-character        *)
(* string.  "\n" is the line terminator, " " and "\t" are the whitespace   *)
(* characters of the model alphabet.                                       *)
(***************************************************************************)
EXTENDS Integers, Sequences, FiniteSets, TLC

VARIABLES
    blocks,     \* the blocks the input text is made of
    raw_text,   \* parse_lga_text: the argument
    lines,      \* parse_lga_text: the stripped non-blank lines
    i,          \* parse_lga_text: the cursor
    records,    \* parse_lga_text: the records emitted so far
    pc,         \* parse_lga_text: position ("idle", "call", "loop", "done")
    heap,       \* the DataFrame objects: heap[id] is the table of object id
    arg,        \* clean_lga_data: the object the caller passed
    df_in,      \* the table the caller's object held when it was passed
    df,         \* clean_lga_data: the object the local name df is bound to
    ret,        \* clean_lga_data: the object returned (0: none)
    cpc,        \* clean_lga_data: position
    users,      \* the users table: the User rows in insertion order
    now,        \* the clock that datetime.now reads
    sess,       \* sess[s]: st.session_state of browser session s
    op,         \* op[p]: the function process p is in, and its arguments
    outcome     \* outcome[p]: what the last call of process p returned, showed

parse_vars == <<blocks, raw_text, lines, i, records, pc>>
clean_vars == <<heap, arg, df_in, df, ret, cpc>>
auth_vars == <<users, now, sess, op, outcome>>
vars == <<blocks, raw_text, lines, i, records, pc, heap, arg, df_in, df, ret, cpc,
          users, now, sess, op, outcome>>

(***************************************************************************)
(* Bounds of the model.                                                    *)
(***************************************************************************)
MaxBlocks == 3
MaxCols == 2
MaxRows == 2
MaxTime == 2

(***************************************************************************)
(* Python str helpers used by the parser.                                  *)
(***************************************************************************)
NL == "\n"

IsSpace(c) == c \in {" ", "\t", NL}

\* the positions of s, in order
Positions(s) == [p \in 1..Len(s) |-> p]

\* str.strip(): no leading and no trailing whitespace
strip(s) ==
    LET keep == SelectSeq(Positions(s), LAMBDA p : ~IsSpace(s[p]))
    IN  IF keep = <<>> THEN <<>> ELSE SubSeq(s, keep[1], keep[Len(keep)])

\* str.splitlines(): the pieces between line terminators, no final empty piece
splitlines(t) ==
    LET nls  == SelectSeq(Positions(t), LAMBDA p : t[p] = NL)
        n    == Len(nls)
        from(k) == IF k = 1 THEN 1 ELSE nls[k - 1] + 1
        body == [k \in 1..n |-> SubSeq(t, from(k), nls[k] - 1)]
        last == SubSeq(t, from(n + 1), Len(t))
    IN  IF last = <<>> THEN body ELSE Append(body, last)

\* str.split(): the maximal runs of non-whitespace characters
split(s) ==
    LET starts == SelectSeq(Positions(s), LAMBDA p :
                      ~IsSpace(s[p]) /\ (p = 1 \/ IsSpace(s[p - 1])))
        ends   == SelectSeq(Positions(s), LAMBDA p :
                      ~IsSpace(s[p]) /\ (p = Len(s) \/ IsSpace(s[p + 1])))
    IN  [k \in 1..Len(starts) |-> SubSeq(s, starts[k], ends[k])]

RECURSIVE join(_)
\* " ".join(tokens)
join(tokens) ==
    IF tokens = <<>> THEN <<>>
    ELSE IF Len(tokens) = 1 THEN tokens[1]
    ELSE tokens[1] \o <<" ">> \o join(Tail(tokens))

\* re.sub(r"\s+", "", s)
remove_ws(s) == SelectSeq(s, LAMBDA c : ~IsSpace(c))

(***************************************************************************)
(* parse_lga_text                                                          *)
(***************************************************************************)
\* line 276, mutated: the filter tests the line before it is stripped
StrippedLinesFilterRaw(t) ==
    LET raw  == splitlines(t)
        kept == SelectSeq(raw, LAMBDA l : l # <<>>)
    IN  [k \in 1..Len(kept) |-> strip(kept[k])]

\* line 276, mutated: blank lines are kept
StrippedLinesKeepBlank(t) ==
    LET raw == splitlines(t)
    IN  [k \in 1..Len(raw) |-> strip(raw[k])]

\* line 276: [line.strip() for line in raw_text.splitlines() if line.strip()]
StrippedLines(t) ==
    LET raw == splitlines(t)
        str == [k \in 1..Len(raw) |-> strip(raw[k])]
    IN  SelectSeq(str, LAMBDA l : l # <<>>)

\* lines[k] with Python's 0-based index; IndexError is modelled by InRange
InRange(ls, k) == k >= 0 /\ k < Len(ls)
At(ls, k) == ls[k + 1]

\* the cursor's stride after a record is emitted (line 308)
SuccessStride == 8
\* line 310, mutated: the whole block after the cursor is skipped
FailureStrideBlock == SuccessStride
\* line 310, mutated: the cursor stays where it is after an exception
FailureStrideNone == SuccessStride - SuccessStride
\* line 310, mutated: the rest of a block is skipped with the failing line
FailureStrideRest == SuccessStride - 1
\* the cursor's stride after an exception (line 310)
FailureStride == 1
\* the number of lines the try body reads (lines 284-295)
BlockLen == 8

\* lines 285-287, mutated: a line without a state name raises as well
TryRaisesOneToken(ls, k) ==
    IF ~InRange(ls, k + BlockLen - 1) THEN TRUE
    ELSE Len(split(At(ls, k + 1))) < 2

\* lines 284-295 raise (IndexError) exactly when a line of the block is
\* missing or the HASC/state line has no token
TryRaises(ls, k) ==
    IF ~InRange(ls, k + BlockLen - 1) THEN TRUE ELSE split(At(ls, k + 1)) = <<>>

\* line 287, mutated: the state is the rest of the line as it is written
BlockRecordRawState(ls, k) ==
    LET hasc_state == split(At(ls, k + 1))
    IN  [LGA        |-> At(ls, k),
         HASC       |-> hasc_state[1],
         State      |-> strip(SubSeq(At(ls, k + 1), Len(hasc_state[1]) + 1,
                                     Len(At(ls, k + 1)))),
         Capital    |-> At(ls, k + 2),
         Population |-> remove_ws(At(ls, k + 3)),
         Latitude   |-> At(ls, k + 4),
         Longitude  |-> At(ls, k + 5),
         AreaKm     |-> At(ls, k + 6),
         Density    |-> At(ls, k + 7)]

\* lines 284-307, mutated: latitude and longitude exchanged
BlockRecordSwapped(ls, k) ==
    LET hasc_state == split(At(ls, k + 1))
    IN  [LGA        |-> At(ls, k),
         HASC       |-> hasc_state[1],
         State      |-> join(Tail(hasc_state)),
         Capital    |-> At(ls, k + 2),
         Population |-> remove_ws(At(ls, k + 3)),
         Latitude   |-> At(ls, k + 5),
         Longitude  |-> At(ls, k + 4),
         AreaKm     |-> At(ls, k + 6),
         Density    |-> At(ls, k + 7)]

\* lines 284-307: the record built from lines k .. k+7
BlockRecord(ls, k) ==
    LET hasc_state == split(At(ls, k + 1))
    IN  [LGA        |-> At(ls, k),
         HASC       |-> hasc_state[1],
         State      |-> join(Tail(hasc_state)),
         Capital    |-> At(ls, k + 2),
         Population |-> remove_ws(At(ls, k + 3)),
         Latitude   |-> At(ls, k + 4),
         Longitude  |-> At(ls, k + 5),
         AreaKm     |-> At(ls, k + 6),
         Density    |-> At(ls, k + 7)]

RECURSIVE ParseLoop(_, _, _)
\* lines 281-310 as a function: the records the loop ends with
ParseLoop(ls, k, recs) ==
    IF ~(k < Len(ls)) THEN recs
    ELSE IF TryRaises(ls, k) THEN ParseLoop(ls, k + FailureStride, recs)
    ELSE ParseLoop(ls, k + SuccessStride, Append(recs, BlockRecord(ls, k)))

\* lines 274-313 as a function of the input text
parse_lga_text(t) == ParseLoop(StrippedLines(t), 0, <<>>)

(***************************************************************************)
(* Input texts: sequences of blocks, each block a sequence of lines.       *)
(***************************************************************************)
\* a well-formed block; its lines carry leading/trailing blanks, a tab and
\* a double space between tokens, and a grouped population
BlockA ==
    << <<"a", "b">>,
       <<"a", ".", "b", "\t", "a", "b", " ", " ", "b">>,
       <<" ", "b", "a", " ">>,
       <<"1", "5", " ", "6", "0", "0">>,
       <<"5", ".", "1">>,
       <<"7", ".", "5">>,
       <<"6", "0">>,
       <<"2", ".", "5">> >>

\* a second well-formed block with other contents
BlockB ==
    << <<"b", " ", "a">>,
       <<"b", ".", "a", " ", "b">>,
       <<"b", "b">>,
       <<"1", " ", "0", "0", "0">>,
       <<"1", ".", "0">>,
       <<"0", ".", "5">>,
       <<"1", "0">>,
       <<"1", "0", "0">> >>

\* BlockA with a whitespace-only line inside it and an empty line after it
BlockGap ==
    SubSeq(BlockA, 1, 2) \o << <<" ", "\t">> >> \o SubSeq(BlockA, 3, 8) \o << <<>> >>

\* BlockB with its population line missing: 7 lines
BlockMissing == SubSeq(BlockB, 1, 3) \o SubSeq(BlockB, 5, 8)

\* 8 non-blank lines that are no record: one token where HASC and state
\* are expected, letters where numbers are expected
BlockGarbage == [k \in 1..8 |-> <<"b">>]

\* blank lines only
BlockBlank == << <<>>, <<" ">> >>

BlockTemplates ==
    {BlockA, BlockB, BlockGap, BlockMissing, BlockGarbage, BlockBlank}

RECURSIVE Flatten(_)
\* the lines of a sequence of blocks
Flatten(bs) == IF bs = <<>> THEN <<>> ELSE Head(bs) \o Flatten(Tail(bs))

RECURSIVE JoinLines(_)
\* the text whose lines are ls, each line terminated by "\n"
JoinLines(ls) ==
    IF ls = <<>> THEN <<>> ELSE Head(ls) \o <<NL>> \o JoinLines(Tail(ls))

BlockSeqs == UNION {[1..n -> BlockTemplates] : n \in 0..MaxBlocks}

(***************************************************************************)
(* The parser as a state machine: one action per loop iteration.           *)
(***************************************************************************)
ParseInit ==
    /\ blocks \in BlockSeqs
    /\ raw_text = JoinLines(Flatten(blocks))
    /\ lines = <<>>
    /\ i = 0
    /\ records = <<>>
    /\ pc = "call"
    /\ heap = <<>> /\ arg = 0 /\ df_in = <<>> /\ df = 0 /\ ret = 0
    /\ cpc = "idle"
    /\ users = <<>> /\ now = 0 /\ sess = <<>> /\ op = <<>> /\ outcome = <<>>

\* lines 275-281
ParseBegin ==
    /\ pc = "call"
    /\ lines' = StrippedLines(raw_text)
    /\ records' = <<>>
    /\ i' = 0
    /\ pc' = "loop"
    /\ UNCHANGED <<blocks, raw_text>>
    /\ UNCHANGED <<clean_vars, auth_vars>>

\* lines 282-308: the try body runs to its end
ParseEmit ==
    /\ pc = "loop"
    /\ i < Len(lines)
    /\ ~TryRaises(lines, i)
    /\ records' = Append(records, BlockRecord(lines, i))
    /\ i' = i + SuccessStride
    /\ UNCHANGED <<blocks, raw_text, lines, pc>>
    /\ UNCHANGED <<clean_vars, auth_vars>>

\* lines 282-295, 309-310: the try body raises
ParseSkip ==
    /\ pc = "loop"
    /\ i < Len(lines)
    /\ TryRaises(lines, i)
    /\ i' = i + FailureStride
    /\ UNCHANGED <<blocks, raw_text, lines, records, pc>>
    /\ UNCHANGED <<clean_vars, auth_vars>>

\* lines 282, 312-313: the loop exits and the records are returned
ParseReturn ==
    /\ pc = "loop"
    /\ ~(i < Len(lines))
    /\ pc' = "done"
    /\ UNCHANGED <<blocks, raw_text, lines, i, records>>
    /\ UNCHANGED <<clean_vars, auth_vars>>

ParseNext == ParseBegin \/ ParseEmit \/ ParseSkip \/ ParseReturn

Init == ParseInit

Next == ParseNext

Spec == Init /\ [][Next]_vars

(***************************************************************************)
(* clean_lga_data: tables, cells and the pandas operations it uses.        *)
(*                                                                         *)
(* A table is [columns |-> names, data |-> columns of cells]: data[c][r]   *)
(* is the cell of column c in row r.  A cell is a string, NaN (the         *)
(* missing-value marker), an int64 or a float64 (a decimal n / d with d a  *)
(* power of 10, in lowest terms).                                          *)
(***************************************************************************)
\* characters outside ASCII, by code point
BOM == "U+FEFF"
VB1 == "U+00EF"
VB2 == "U+00BB"
VB3 == "U+00BF"
CapVB1 == "U+00CF"

Str(s) == [t |-> "str", v |-> s]
NaN == [t |-> "nan"]
IntCell(n) == [t |-> "int", n |-> n]
FloatCell(n, d) == [t |-> "float", n |-> n, d |-> d]

\* str.replace(c, "") for a one-character c
remove_char(s, c) == SelectSeq(s, LAMBDA x : x # c)

RECURSIVE remove_sub3(_, _)
\* str.replace(sub, "") for a three-character sub: leftmost occurrences
remove_sub3(s, sub) ==
    IF Len(s) < 3 THEN s
    ELSE IF SubSeq(s, 1, 3) = sub THEN remove_sub3(SubSeq(s, 4, Len(s)), sub)
    ELSE <<Head(s)>> \o remove_sub3(Tail(s), sub)

\* str.replace(" ", "_")
spaces_to_underscores(s) == [p \in 1..Len(s) |-> IF s[p] = " " THEN "_" ELSE s[p]]

UpperChars == <<"A", "G", "K", "L", "M", "P", CapVB1>>
LowerChars == <<"a", "g", "k", "l", "m", "p", VB1>>

\* str.lower()
lower(s) ==
    [p \in 1..Len(s) |->
        IF \E k \in 1..Len(UpperChars) : UpperChars[k] = s[p]
        THEN LowerChars[CHOOSE k \in 1..Len(UpperChars) : UpperChars[k] = s[p]]
        ELSE s[p]]

\* lines 324-331, mutated: spaces are replaced before the name is stripped
clean_name_spaces_first(name) ==
    lower(remove_char(remove_char(
        remove_sub3(remove_char(strip(spaces_to_underscores(name)), BOM),
                    <<VB1, VB2, VB3>>),
        "("), ")"))

\* lines 324-331: the cleaning of one column name
clean_name(name) ==
    lower(spaces_to_underscores(remove_char(remove_char(
        remove_sub3(remove_char(strip(name), BOM), <<VB1, VB2, VB3>>),
        "("), ")")))

\* line 334
string_cols == << <<"l", "g", "a">>, <<"h", "a", "s", "c">>,
                  <<"s", "t", "a", "t", "e">>,
                  <<"c", "a", "p", "i", "t", "a", "l">> >>

\* line 335
numeric_cols == << <<"p", "o", "p", "u", "l", "a", "t", "i", "o", "n">>,
                   <<"l", "a", "t", "i", "t", "u", "d", "e">>,
                   <<"l", "o", "n", "g", "i", "t", "u", "d", "e">>,
                   <<"a", "r", "e", "a", "k", "m">>,
                   <<"a", "r", "e", "a", "_", "k", "m">>,
                   <<"d", "e", "n", "s", "i", "t", "y">> >>

DigitChars == <<"0", "1", "2", "3", "4", "5", "6", "7", "8", "9">>
DigitVal(c) == (CHOOSE k \in 1..10 : DigitChars[k] = c) - 1
IsDigit(c) == \E k \in 1..10 : DigitChars[k] = c

RECURSIVE DigitsToInt(_)
DigitsToInt(ds) ==
    IF ds = <<>> THEN 0
    ELSE 10 * DigitsToInt(SubSeq(ds, 1, Len(ds) - 1)) + DigitVal(ds[Len(ds)])

RECURSIVE IntToDigits(_)
IntToDigits(n) ==
    IF n < 10 THEN <<DigitChars[n + 1]>>
    ELSE Append(IntToDigits(n \div 10), DigitChars[(n % 10) + 1])

RECURSIVE Pow10(_)
Pow10(k) == IF k = 0 THEN 1 ELSE 10 * Pow10(k - 1)

RECURSIVE Log10(_)
Log10(d) == IF d = 1 THEN 0 ELSE 1 + Log10(d \div 10)

RECURSIVE Lowest(_, _)
\* n / d in lowest terms, d a power of 10
Lowest(n, d) ==
    IF d > 1 /\ n % 10 = 0 THEN Lowest(n \div 10, d \div 10) ELSE <<n, d>>

Abs(n) == IF n < 0 THEN 0 - n ELSE n

\* the parse of one string by pd.to_numeric: an optional sign, digits with
\* at most one ".", at least one digit (the alphabet of the model has no
\* exponent, "inf" or hexadecimal text)
ParseDecimal(s) ==
    LET signed == s # <<>> /\ s[1] \in {"-", "+"}
        body   == IF signed THEN Tail(s) ELSE s
        dots   == SelectSeq(Positions(body), LAMBDA p : body[p] = ".")
        digs   == SelectSeq(body, IsDigit)
        ok     == /\ digs # <<>>
                  /\ Len(dots) <= 1
                  /\ \A p \in 1..Len(body) : IsDigit(body[p]) \/ body[p] = "."
        frac   == IF dots = <<>> THEN 0 ELSE Len(body) - dots[1]
        mag    == DigitsToInt(digs)
        val    == Lowest(IF signed /\ s[1] = "-" THEN 0 - mag ELSE mag, Pow10(frac))
    IN  IF ok THEN [ok |-> TRUE, n |-> val[1], d |-> val[2], int |-> dots = <<>>]
        ELSE [ok |-> FALSE]

\* str(x) of a float64: the integer part, ".", the fraction (".0" if none)
FloatRepr(n, d) ==
    LET k    == Log10(d)
        frac == IntToDigits(Abs(n) % d)
        pad  == [p \in 1..(k - Len(frac)) |-> "0"]
    IN  (IF n < 0 THEN <<"-">> ELSE <<>>) \o IntToDigits(Abs(n) \div d) \o <<".">>
        \o (IF k = 0 THEN <<"0">> ELSE pad \o frac)

\* Series.astype(str) on one cell
astype_str(cell) ==
    CASE cell.t = "str"   -> cell.v
      [] cell.t = "nan"   -> <<"n", "a", "n">>
      [] cell.t = "int"   -> (IF cell.n < 0 THEN <<"-">> ELSE <<>>)
                                 \o IntToDigits(Abs(cell.n))
      [] cell.t = "float" -> FloatRepr(cell.n, cell.d)

\* pd.to_numeric(errors="coerce") on a column of strings: int64 when every
\* string is an integer literal, float64 with NaN for the failures otherwise
to_numeric(col) ==
    LET parsed == [r \in 1..Len(col) |-> ParseDecimal(col[r])]
        allint == \A r \in 1..Len(col) : parsed[r].ok /\ parsed[r].int
    IN  [r \in 1..Len(col) |->
            IF ~parsed[r].ok THEN NaN
            ELSE IF allint THEN IntCell(parsed[r].n)
            ELSE FloatCell(parsed[r].n, parsed[r].d)]

Raised == [raised |-> TRUE]

\* the positions of the columns named name
ColumnsNamed(T, name) == {c \in 1..Len(T.columns) : T.columns[c] = name}

\* line 340, mutated: the cells are converted to text but not stripped
string_column_unstripped(col) == [r \in 1..Len(col) |-> Str(astype_str(col[r]))]

\* line 340
string_column(col) == [r \in 1..Len(col) |-> Str(strip(astype_str(col[r])))]

\* lines 345-351, mutated: commas are not removed
numeric_column_commas_kept(col) ==
    to_numeric([r \in 1..Len(col) |->
        remove_char(strip(astype_str(col[r])), " ")])

\* lines 345-351
numeric_column(col) ==
    to_numeric([r \in 1..Len(col) |->
        remove_char(remove_char(strip(astype_str(col[r])), " "), ",")])

\* the right-hand side of line 340 (kind "string") or of lines 345-351
ConvertColumn(kind, col) ==
    IF kind = "string" THEN string_column(col) ELSE numeric_column(col)

\* df[col] = ... for one column name: nothing when the name is absent
\* (lines 339, 344); with the name on two columns df[col] is a DataFrame,
\* which has no .str accessor, and the statement raises AttributeError
AssignColumn(T, name, kind) ==
    IF "raised" \in DOMAIN T THEN T
    ELSE IF ColumnsNamed(T, name) = {} THEN T
    ELSE IF Cardinality(ColumnsNamed(T, name)) > 1 THEN Raised
    ELSE LET c == CHOOSE x \in ColumnsNamed(T, name) : TRUE
         IN  [T EXCEPT !.data[c] = ConvertColumn(kind, T.data[c])]

RECURSIVE ForEachColumn(_, _, _)
\* for col in names: if col in df.columns: df[col] = ...
ForEachColumn(T, names, kind) ==
    IF names = <<>> THEN T
    ELSE ForEachColumn(AssignColumn(T, Head(names), kind), Tail(names), kind)

\* lines 324-331
columns_step(T) ==
    [T EXCEPT !.columns = [c \in 1..Len(T.columns) |-> clean_name(T.columns[c])]]

\* lines 338-340
strings_step(T) == ForEachColumn(T, string_cols, "string")

\* lines 343-351, mutated: pd.to_numeric(errors="raise")
numeric_step_raising(T) ==
    LET out == ForEachColumn(T, numeric_cols, "numeric")
    IN  IF "raised" \in DOMAIN out THEN out
        ELSE IF \E c \in 1..Len(out.data) : \E r \in 1..Len(out.data[c]) :
                   out.data[c][r] = NaN /\ T.data[c][r] # NaN
             THEN Raised
        ELSE out

\* lines 343-351
numeric_step(T) == ForEachColumn(T, numeric_cols, "numeric")

\* line 321, mutated: df = df
df_alias(h, id) == [heap |-> h, ref |-> id]

\* line 321: df.copy() makes a new object holding a copy of the table
df_copy(h, id) == [heap |-> Append(h, h[id]), ref |-> Len(h) + 1]

\* lines 319-353 as a function of a table: the table returned, or Raised
clean_lga_data(T) ==
    LET named == strings_step(columns_step(T))
    IN  IF "raised" \in DOMAIN named THEN Raised ELSE numeric_step(named)

(***************************************************************************)
(* Input tables.                                                           *)
(***************************************************************************)
NameSet ==
    { <<" ", "A", "r", "e", "a", " ", "(", "K", "m", ")", " ">>,
      <<"a", "r", "e", "a", "_", "k", "m">>,
      <<BOM, "L", "G", "A">>,
      <<"P", "o", "p", "u", "l", "a", "t", "i", "o", "n">>,
      <<CapVB1, VB2, VB3, "A", "r", "e", "a", "K", "m">>,
      <<"m", " ", "(", "k", ")">> }

CellSet ==
    { Str(<<"1", "5", "5", " ", "6", "0", "0">>),
      Str(<<"1", "2", ",", "3", "4", "5", ".", "6">>),
      Str(<<"a", "b", "c">>),
      Str(<<" ", "-", "1", ".", "5", "0", " ">>),
      Str(<<"2", "\t", "5">>),
      NaN }

\* the table of the given names and nrows rows: the cells of a row are the
\* cell sequence rotated by the column number
Table(names, cells) ==
    [columns |-> names,
     data    |-> [c \in 1..Len(names) |->
                    [r \in 1..Len(cells) |-> cells[((r + c - 2) % Len(cells)) + 1]]]]

(***************************************************************************)
(* clean_lga_data as a state machine: one action per statement.            *)
(***************************************************************************)
CleanInit ==
    /\ blocks = <<>> /\ raw_text = <<>> /\ lines = <<>> /\ i = 0
    /\ records = <<>> /\ pc = "idle"
    /\ \E ncols \in 1..MaxCols, nrows \in 0..MaxRows :
          \E names \in [1..ncols -> NameSet], cells \in [1..nrows -> CellSet] :
              df_in = Table(names, cells)
    /\ heap = <<df_in>>
    /\ arg = 1
    /\ df = 0
    /\ ret = 0
    /\ cpc = "copy"
    /\ users = <<>> /\ now = 0 /\ sess = <<>> /\ op = <<>> /\ outcome = <<>>

\* line 321: df = df.copy()
CleanCopy ==
    /\ cpc = "copy"
    /\ heap' = df_copy(heap, arg).heap
    /\ df' = df_copy(heap, arg).ref
    /\ cpc' = "columns"
    /\ UNCHANGED <<arg, df_in, ret>>
    /\ UNCHANGED <<parse_vars, auth_vars>>

\* lines 324-331: df.columns = ...
CleanColumns ==
    /\ cpc = "columns"
    /\ heap' = [heap EXCEPT ![df] = columns_step(heap[df])]
    /\ cpc' = "strings"
    /\ UNCHANGED <<arg, df_in, df, ret>>
    /\ UNCHANGED <<parse_vars, auth_vars>>

\* lines 338-340, all iterations
CleanStrings ==
    /\ cpc = "strings"
    /\ "raised" \notin DOMAIN strings_step(heap[df])
    /\ heap' = [heap EXCEPT ![df] = strings_step(heap[df])]
    /\ cpc' = "numeric"
    /\ UNCHANGED <<arg, df_in, df, ret>>
    /\ UNCHANGED <<parse_vars, auth_vars>>

\* lines 343-351, all iterations
CleanNumeric ==
    /\ cpc = "numeric"
    /\ "raised" \notin DOMAIN numeric_step(heap[df])
    /\ heap' = [heap EXCEPT ![df] = numeric_step(heap[df])]
    /\ cpc' = "return"
    /\ UNCHANGED <<arg, df_in, df, ret>>
    /\ UNCHANGED <<parse_vars, auth_vars>>

\* line 340 or lines 345-350 raise: the exception leaves the function
CleanRaise ==
    /\ \/ cpc = "strings" /\ "raised" \in DOMAIN strings_step(heap[df])
       \/ cpc = "numeric" /\ "raised" \in DOMAIN numeric_step(heap[df])
    /\ cpc' = "raised"
    /\ UNCHANGED <<heap, arg, df_in, df, ret>>
    /\ UNCHANGED <<parse_vars, auth_vars>>

\* line 353: return df
CleanReturn ==
    /\ cpc = "return"
    /\ ret' = df
    /\ cpc' = "returned"
    /\ UNCHANGED <<heap, arg, df_in, df>>
    /\ UNCHANGED <<parse_vars, auth_vars>>

CleanNext ==
    \/ CleanCopy
    \/ CleanColumns
    \/ CleanStrings
    \/ CleanNumeric
    \/ CleanRaise
    \/ CleanReturn

SpecClean == CleanInit /\ [][CleanNext]_vars

(***************************************************************************)
(* Vocabulary of the properties: the block shape of spec section 3.        *)
(***************************************************************************)
Digits == {"0", "1", "2", "3", "4", "5", "6", "7", "8", "9"}

NonBlank(l) == \E p \in 1..Len(l) : ~IsSpace(l[p])

IsDecimalText(l) ==
    /\ \E p \in 1..Len(l) : l[p] \in Digits
    /\ \A p \in 1..Len(l) : l[p] \in Digits \cup {"."}

IsPopulationText(l) ==
    /\ \E p \in 1..Len(l) : l[p] \in Digits
    /\ \A p \in 1..Len(l) : l[p] \in Digits \/ IsSpace(l[p])

\* 8 non-empty lines: name, HASC and state, capital, population, 4 decimals
WellFormedBlock(b) ==
    /\ Len(b) = 8
    /\ \A k \in 1..8 : NonBlank(b[k])
    /\ Len(split(b[2])) >= 2
    /\ IsPopulationText(strip(b[4]))
    /\ \A k \in 5..8 : IsDecimalText(strip(b[k]))

AllFieldsPopulated(r) ==
    /\ r.LGA # <<>> /\ r.HASC # <<>> /\ r.State # <<>> /\ r.Capital # <<>>
    /\ r.Population # <<>> /\ r.Latitude # <<>> /\ r.Longitude # <<>>
    /\ r.AreaKm # <<>> /\ r.Density # <<>>

\* r holds the fields of the 8 raw lines L[n+1] .. L[n+8]
BuiltFrom(r, L, n) ==
    /\ r.LGA = strip(L[n + 1])
    /\ r.HASC = split(L[n + 2])[1]
    /\ r.State = join(Tail(split(L[n + 2])))
    /\ r.Capital = strip(L[n + 3])
    /\ r.Population = remove_ws(L[n + 4])
    /\ r.Latitude = strip(L[n + 5])
    /\ r.Longitude = strip(L[n + 6])
    /\ r.AreaKm = strip(L[n + 7])
    /\ r.Density = strip(L[n + 8])

\* the non-blank lines of a block, and the number of them in a text
NonBlankLines(b) == SelectSeq(b, NonBlank)
NonBlankCount(t) == Len(SelectSeq(splitlines(t), NonBlank))

AllWellFormed == \A k \in 1..Len(blocks) : WellFormedBlock(blocks[k])

(***************************************************************************)
(* C1: a text of exactly N well-formed 8-line blocks and no blank line     *)
(* yields exactly N records, in input order, record k built from lines     *)
(* 8k .. 8k+7 of the input, every field populated.                         *)
(***************************************************************************)
C1_WellFormedBlocksParsed ==
    (pc = "done" /\ AllWellFormed) =>
        /\ Len(records) = Len(blocks)
        /\ \A k \in 0..(Len(blocks) - 1) :
              /\ BuiltFrom(records[k + 1], splitlines(raw_text), 8 * k)
              /\ AllFieldsPopulated(records[k + 1])

C1_Witness ==
    /\ pc = "done"
    /\ AllWellFormed
    /\ Len(blocks) >= 2
    /\ Len(records) = Len(blocks)
    /\ records[1] # records[2]

C3_BlocksAfterMalformedKept ==
    \A m \in 1..Len(blocks) :
        (/\ pc = "done"
         /\ ~WellFormedBlock(NonBlankLines(blocks[m]))
         /\ \A k \in 1..Len(blocks) : k # m => WellFormedBlock(blocks[k]))
        => \A k \in (m + 1)..Len(blocks) :
              \E n \in 1..Len(records) : BuiltFrom(records[n], blocks[k], 0)

(***************************************************************************)
(* C4 as stated: an empty, blank-only or entirely malformed text (no 8     *)
(* consecutive non-blank lines that form a well-formed block) yields zero  *)
(* records, whatever its number of non-blank lines.                        *)
(***************************************************************************)
ContainsWellFormedBlock(t) ==
    LET ls == SelectSeq(splitlines(t), NonBlank)
    IN  \E n \in 0..(Len(ls) - 8) : WellFormedBlock(SubSeq(ls, n + 1, n + 8))

C4_MalformedYieldsNothing ==
    (pc = "done" /\ ~ContainsWellFormedBlock(raw_text)) => records = <<>>

(***************************************************************************)
(* C4 as amended: zero records are returned exactly when the text has      *)
(* fewer than 8 non-blank lines (so for an empty or blank-only text); a    *)
(* malformed text with 8 or more non-blank lines yields records.           *)
(***************************************************************************)
C4_ZeroRecordsIffShort ==
    pc = "done" =>
        /\ (records = <<>>) <=> (NonBlankCount(raw_text) < 8)
        /\ NonBlankCount(raw_text) = 0 => records = <<>>

C4_Witness ==
    /\ pc = "done"
    /\ raw_text # <<>>
    /\ NonBlankCount(raw_text) \in 1..7
    /\ ~ContainsWellFormedBlock(raw_text)
    /\ records = <<>>

(***************************************************************************)
(* C5: inserting a blank or whitespace-only line anywhere in the text, or  *)
(* deleting one, does not change the sequence of records returned.         *)
(***************************************************************************)
BlankLines == {<<>>, <<" ", "\t">>}

BlankEdits(t) ==
    LET L == splitlines(t)
        n == Len(L)
    IN  {JoinLines(SubSeq(L, 1, p) \o <<w>> \o SubSeq(L, p + 1, n)) :
            p \in 0..n, w \in BlankLines}
        \cup
        {JoinLines(SubSeq(L, 1, p - 1) \o SubSeq(L, p + 1, n)) :
            p \in {q \in 1..n : ~NonBlank(L[q])}}

C5_BlankLinesIgnored ==
    pc = "done" => \A e \in BlankEdits(raw_text) : parse_lga_text(e) = records

C5_Witness ==
    /\ pc = "done"
    /\ Len(records) >= 2
    /\ LET L == splitlines(raw_text)
       IN  /\ \E p \in 1..Len(L) : L[p] = <<>>
           /\ \E p \in 1..Len(L) : L[p] = <<" ", "\t">>

(***************************************************************************)
(* Vocabulary of the properties of clean_lga_data.                         *)
(***************************************************************************)
AreaKmHeader == <<" ", "A", "r", "e", "a", " ", "(", "K", "m", ")", " ">>
BomLgaHeader == <<BOM, "L", "G", "A">>

InSeq(x, s) == \E k \in 1..Len(s) : s[k] = x

\* the value of a numeric cell as a decimal <<n, d>> in lowest terms
Value(cell) == IF cell.t = "int" THEN <<cell.n, 1>> ELSE <<cell.n, cell.d>>

\* the text of a cell, trimmed, with every space and every comma deleted
Squeezed(cell) ==
    SelectSeq(strip(astype_str(cell)), LAMBDA x : x # " " /\ x # ",")

\* a decimal number: an optional sign, then digits around at most one "."
LooksDecimal(s) ==
    LET body == IF s # <<>> /\ s[1] \in {"-", "+"} THEN Tail(s) ELSE s
    IN  /\ \A p \in 1..Len(body) : body[p] \in Digits \cup {"."}
        /\ \E p \in 1..Len(body) : body[p] \in Digits
        /\ Cardinality({p \in 1..Len(body) : body[p] = "."}) <= 1

\* the columns of the returned table that are designated numeric columns
NumericColumnsOf(T) == {c \in 1..Len(T.columns) : InSeq(T.columns[c], numeric_cols)}

(***************************************************************************)
(* C6: every column name is replaced by its strip, then without U+FEFF,    *)
(* then without the 3-character visual BOM, then without "(" and ")",      *)
(* then with "_" for every space, then lowercased; " Area (Km) " becomes   *)
(* "area_km" and a name with a leading BOM its lowercased rest.            *)
(***************************************************************************)
C6_ColumnNamesCleaned ==
    cpc \notin {"copy", "columns"} =>
        /\ Len(heap[df].columns) = Len(df_in.columns)
        /\ \A c \in 1..Len(df_in.columns) :
              LET old == df_in.columns[c]
                  new == heap[df].columns[c]
              IN  /\ new = lower(spaces_to_underscores(remove_char(remove_char(
                             remove_sub3(remove_char(strip(old), BOM),
                                         <<VB1, VB2, VB3>>), "("), ")")))
                  /\ old = AreaKmHeader => new = <<"a", "r", "e", "a", "_", "k", "m">>
                  /\ old = BomLgaHeader => new = <<"l", "g", "a">>
                  /\ \A p \in 1..Len(new) :
                        /\ new[p] \notin {" ", "(", ")", BOM}
                        /\ ~InSeq(new[p], UpperChars)

C6_Witness ==
    /\ cpc = "returned"
    /\ Len(df_in.columns) = 2
    /\ df_in.columns[1] = AreaKmHeader
    /\ df_in.columns[2] = BomLgaHeader
    /\ heap[ret].columns = << <<"a", "r", "e", "a", "_", "k", "m">>, <<"l", "g", "a">> >>

(***************************************************************************)
(* C7: clean_lga_data is idempotent: applied to a table it returned, it    *)
(* returns a table with the same column names and the same cell values.    *)
(***************************************************************************)
C7_Idempotent ==
    cpc = "returned" => clean_lga_data(heap[ret]) = heap[ret]

(***************************************************************************)
(* C8: a cell of a designated numeric column becomes the number its text   *)
(* denotes once trimmed and freed of spaces and commas: "155 600" gives    *)
(* 155600, "12,345.6" gives 12345.6; text that is then no decimal number   *)
(* ("abc") gives the missing-value marker.                                 *)
(***************************************************************************)
C8_NumericCoercion ==
    cpc = "returned" =>
        \A c \in NumericColumnsOf(heap[ret]) : \A r \in 1..Len(df_in.data[c]) :
            LET in  == df_in.data[c][r]
                out == heap[ret].data[c][r]
            IN  /\ in = Str(<<"1", "5", "5", " ", "6", "0", "0">>)
                      => out # NaN /\ Value(out) = <<155600, 1>>
                /\ in = Str(<<"1", "2", ",", "3", "4", "5", ".", "6">>)
                      => out # NaN /\ Value(out) = <<123456, 10>>
                /\ in = Str(<<" ", "-", "1", ".", "5", "0", " ">>)
                      => out # NaN /\ Value(out) = <<0 - 15, 10>>
                /\ in = Str(<<"a", "b", "c">>) => out = NaN
                /\ in = Str(<<"2", "\t", "5">>) => out = NaN
                /\ (out = NaN) <=> ~LooksDecimal(Squeezed(in))
                /\ out.t \in {"nan", "int", "float"}

C8_Witness ==
    /\ cpc = "returned"
    /\ \E c \in NumericColumnsOf(heap[ret]) :
          /\ Len(df_in.data[c]) = 2
          /\ df_in.data[c][1] = Str(<<"1", "2", ",", "3", "4", "5", ".", "6">>)
          /\ df_in.data[c][2] = Str(<<"1", "5", "5", " ", "6", "0", "0">>)
          /\ heap[ret].data[c] = <<FloatCell(123456, 10), FloatCell(155600, 1)>>

(***************************************************************************)
(* C9: no content of the cells makes clean_lga_data raise: the call        *)
(* raises only for a table with two columns of one designated name; when   *)
(* it returns, every column keeps its rows, an unparseable cell of a       *)
(* numeric column holds the missing-value marker in its own row, and the   *)
(* columns that are not designated are as they were.                       *)
(***************************************************************************)
C9_UnparseableNeverRaises ==
    /\ cpc = "raised" =>
          \E a, b \in 1..Len(df_in.columns) :
              /\ a # b
              /\ heap[df].columns[a] = heap[df].columns[b]
              /\ InSeq(heap[df].columns[a], string_cols \o numeric_cols)
    /\ cpc = "returned" =>
          /\ Len(heap[ret].data) = Len(df_in.data)
          /\ \A c \in 1..Len(df_in.data) :
                /\ Len(heap[ret].data[c]) = Len(df_in.data[c])
                /\ c \in NumericColumnsOf(heap[ret]) =>
                      \A r \in 1..Len(df_in.data[c]) :
                          (heap[ret].data[c][r] = NaN)
                              <=> ~LooksDecimal(Squeezed(df_in.data[c][r]))
                /\ ~InSeq(heap[ret].columns[c], string_cols \o numeric_cols) =>
                      heap[ret].data[c] = df_in.data[c]

C9_Witness ==
    /\ cpc = "returned"
    /\ \E c \in NumericColumnsOf(heap[ret]) :
          /\ Len(df_in.data[c]) = 2
          /\ df_in.data[c][1] = Str(<<"a", "b", "c">>)
          /\ heap[ret].data[c][1] = NaN
          /\ heap[ret].data[c][2] # NaN

(***************************************************************************)
(* C10: clean_lga_data does not mutate its argument: at every point of     *)
(* the call the caller's table has the column names and cells it was       *)
(* passed with, and the table returned is another object.                  *)
(***************************************************************************)
C10_ArgumentNotMutated ==
    /\ heap[arg] = df_in
    /\ cpc = "returned" => ret # arg /\ ret \in DOMAIN heap

C10_Witness ==
    /\ cpc = "returned"
    /\ heap[ret].columns # heap[arg].columns
    /\ heap[ret].data # heap[arg].data

(***************************************************************************)
(* C11: every cell of a designated string column (lga, hasc, state,        *)
(* capital) present after the names are cleaned becomes its text without   *)
(* surrounding whitespace; a designated string or numeric column that is   *)
(* absent raises no error and is not added to the result.                  *)
(***************************************************************************)
Designated == string_cols \o numeric_cols

StringColumnsOf(T) == {c \in 1..Len(T.columns) : InSeq(T.columns[c], string_cols)}

C11_StringColumnsTrimmed ==
    /\ cpc = "raised" =>
          \E c \in 1..Len(heap[df].columns) : InSeq(heap[df].columns[c], Designated)
    /\ cpc = "returned" =>
          /\ Len(heap[ret].columns) = Len(df_in.columns)
          /\ Len(heap[ret].data) = Len(df_in.data)
          /\ \A c \in 1..Len(heap[ret].columns) :
                InSeq(heap[ret].columns[c], Designated)
                => \E d \in 1..Len(df_in.columns) :
                      clean_name(df_in.columns[d]) = heap[ret].columns[c]
          /\ \A c \in StringColumnsOf(heap[ret]) : \A r \in 1..Len(df_in.data[c]) :
                LET in  == df_in.data[c][r]
                    out == heap[ret].data[c][r]
                IN  /\ out.t = "str"
                    /\ out.v = <<>> \/ (~IsSpace(out.v[1]) /\ ~IsSpace(out.v[Len(out.v)]))
                    /\ in.t = "str" =>
                          LET ink == {p \in 1..Len(in.v) : ~IsSpace(in.v[p])}
                          IN  IF ink = {} THEN out.v = <<>>
                              ELSE out.v = SubSeq(in.v,
                                      CHOOSE p \in ink : \A q \in ink : p <= q,
                                      CHOOSE p \in ink : \A q \in ink : q <= p)
                    /\ in = NaN => out = Str(<<"n", "a", "n">>)
                    /\ in = Str(<<" ", "-", "1", ".", "5", "0", " ">>)
                          => out = Str(<<"-", "1", ".", "5", "0">>)
                    /\ in = Str(<<"1", "5", "5", " ", "6", "0", "0">>) => out = in

C11_Witness ==
    /\ cpc = "returned"
    /\ heap[ret].columns = << <<"l", "g", "a">>, <<"m", "_", "k">> >>
    /\ Len(df_in.data[1]) = 2
    /\ df_in.data[1][1] = Str(<<" ", "-", "1", ".", "5", "0", " ">>)
    /\ heap[ret].data[1][1] = Str(<<"-", "1", ".", "5", "0">>)
    /\ heap[ret].data[2] = df_in.data[2]

(***************************************************************************)
(* The credential store and the sessions (lines 38-212).                   *)
(*                                                                         *)
(* users is the table of User rows in insertion order (the id of a row is  *)
(* its position).  Every database round trip of a function is one step,    *)
(* which either succeeds or raises (connection or query failure); other    *)
(* processes run between the steps.  The processes are the browser         *)
(* sessions and the setup script.                                          *)
(***************************************************************************)
Sessions == {"s1", "s2"}
Script == "setup_postgres"
Procs == Sessions \cup {Script}

Usernames == {"admin", "bob"}
Passwords == {"admin123", "pw"}

\* a NULL column value, and the value of a timestamp column read at time t
NULL == <<>>
Time(t) == <<t>>

\* Python's None as a session username and as a return value
None == "None"
NoValue == <<>>

\* lines 82-84: SHA-256 is modelled as an injective tagging of the password
hash_password(password) == <<"sha256", password>>

\* the timestamp after one more reading of the clock, capped at MaxTime
Tick(t) == IF t < MaxTime THEN t + 1 ELSE t

\* line 46, mutated: last_login defaults to the current time
UserSeenNow(username, password_hash, admin, t) ==
    [username      |-> username,
     password_hash |-> password_hash,
     is_admin      |-> admin,
     created_at    |-> Time(t),
     last_login    |-> Time(t)]

\* lines 38-46: a new User row; created_at defaults to the current time
User(username, password_hash, admin, t) ==
    [username      |-> username,
     password_hash |-> password_hash,
     is_admin      |-> admin,
     created_at    |-> Time(t),
     last_login    |-> NULL]

\* db.query(User).filter(User.username == username).first(): the id, 0 if none
FindUser(us, username) ==
    IF \E k \in 1..Len(us) : us[k].username = username
    THEN CHOOSE k \in 1..Len(us) :
            /\ us[k].username = username
            /\ \A j \in 1..(k - 1) : us[j].username # username
    ELSE 0

\* line 42, mutated: a commit for a taken name succeeds and adds nothing
InsertUnlessTaken(us, row) ==
    IF FindUser(us, row.username) # 0
    THEN [ok |-> TRUE, users |-> us]
    ELSE [ok |-> TRUE, users |-> Append(us, row)]

\* line 42, mutated: no unique constraint on username
InsertNotUnique(us, row) == [ok |-> TRUE, users |-> Append(us, row)]

\* db.add(row); db.commit(): the unique constraint on username (line 42)
\* makes the commit raise IntegrityError when the name is taken
Insert(us, row) ==
    IF FindUser(us, row.username) # 0
    THEN [ok |-> FALSE, users |-> us]
    ELSE [ok |-> TRUE, users |-> Append(us, row)]

\* st.session_state of a session that has run nothing yet: a dictionary
\* without keys
NewSession == <<>>

\* st.session_state.get(key, default)
Get(ss, key, default) == IF key \in DOMAIN ss THEN ss[key] ELSE default

\* lines 151-155: check_authentication, run at the top of every page run
check_authentication(ss) ==
    IF "authenticated" \in DOMAIN ss THEN ss ELSE ("authenticated" :> FALSE) @@ ss

\* lines 157-159, mutated: every session counts as an admin session
is_admin_always(ss) == TRUE

\* lines 157-159: st.session_state.get('is_admin', False)
is_admin(ss) == Get(ss, "is_admin", FALSE)

\* the position of a process in the function it runs, with its arguments
Idle == [pc |-> "idle", username |-> None, password |-> None, make_admin |-> FALSE]
Running(pcv, u, p, a) == [pc |-> pcv, username |-> u, password |-> p, make_admin |-> a]

\* what the last call of a process was, what it returned and the messages
\* displayed for it
Result(fn, args, value, shown) ==
    [fn |-> fn, args |-> args, raised |-> FALSE, value |-> value, shown |-> shown]
NoResult == Result("none", <<>>, NoValue, <<>>)

\* a call that an exception left
Escaped(fn, args) ==
    [fn |-> fn, args |-> args, raised |-> TRUE, value |-> NoValue, shown |-> <<>>]

\* lines 76-77: except Exception: st.error(...)
InitFailed ==
    Result("init_database", <<>>, NoValue, <<"Database initialization error">>)
\* lines 60-80 without exception
InitDone == Result("init_database", <<>>, NoValue, <<>>)
\* lines 73-80 of setup_postgres.py
SetupFailed == Result("setup_database", <<>>, <<FALSE>>, <<"Database setup failed">>)
\* lines 62-67, 82 of setup_postgres.py
SetupDone == Result("setup_database", <<>>, <<TRUE>>, <<>>)

BootFailed(p) == IF p = Script THEN SetupFailed ELSE InitFailed
BootDone(p) == IF p = Script THEN SetupDone ELSE InitDone

\* lines 69-73 (setup_postgres.py 55-59): the default administrator
AdminUser(t) == User("admin", hash_password("admin123"), TRUE, t)

AuthInit ==
    /\ blocks = <<>> /\ raw_text = <<>> /\ lines = <<>> /\ i = 0
    /\ records = <<>> /\ pc = "idle"
    /\ heap = <<>> /\ arg = 0 /\ df_in = <<>> /\ df = 0 /\ ret = 0
    /\ cpc = "idle"
    /\ users = <<>>
    /\ now = 0
    /\ sess = [s \in Sessions |-> NewSession]
    /\ op = [p \in Procs |-> Idle]
    /\ outcome = [p \in Procs |-> NoResult]

\* the page run of a session begins with check_authentication (line 362)
PageRun(s) == [sess EXCEPT ![s] = check_authentication(sess[s])]

\* login_page is shown to the sessions that are not authenticated (362-364)
ShowsLogin(s) == ~Get(sess[s], "authenticated", FALSE)

\* the login form can be submitted once a page run has shown it (127-132)
LoginFormShown(s) == "authenticated" \in DOMAIN sess[s] /\ ~sess[s].authenticated

\* init_database lines 64-68 (setup_database lines 41-54): create_all and
\* the query for the user named "admin"
BootQuery(p) ==
    /\ op[p].pc = "idle"
    /\ p \in Sessions => ShowsLogin(p)
    /\ sess' = IF p \in Sessions THEN PageRun(p) ELSE sess
    /\ \/ /\ op' = op
          /\ outcome' = [outcome EXCEPT ![p] = BootFailed(p)]
       \/ /\ FindUser(users, "admin") # 0
          /\ op' = op
          /\ outcome' = [outcome EXCEPT ![p] = BootDone(p)]
       \/ /\ FindUser(users, "admin") = 0
          /\ op' = [op EXCEPT ![p] = Running("boot_insert", "admin", "admin123", TRUE)]
          /\ outcome' = [outcome EXCEPT ![p] = NoResult]
    /\ UNCHANGED <<users, now>>
    /\ UNCHANGED <<parse_vars, clean_vars>>

\* init_database lines 69-75 (setup_database lines 55-61): add and commit
BootInsert(p) ==
    /\ op[p].pc = "boot_insert"
    /\ op' = [op EXCEPT ![p] = Idle]
    /\ \/ /\ outcome' = [outcome EXCEPT ![p] = BootFailed(p)]
          /\ users' = users
       \/ /\ ~Insert(users, AdminUser(now)).ok
          /\ outcome' = [outcome EXCEPT ![p] = BootFailed(p)]
          /\ users' = users
       \/ /\ Insert(users, AdminUser(now)).ok
          /\ outcome' = [outcome EXCEPT ![p] = BootDone(p)]
          /\ users' = Insert(users, AdminUser(now)).users
    /\ UNCHANGED <<now, sess>>
    /\ UNCHANGED <<parse_vars, clean_vars>>

\* lines 94-95, mutated: the update is not restricted to the user's row
SetLastLoginOfAll(us, id, t) == [k \in 1..Len(us) |-> [us[k] EXCEPT !.last_login = Time(t)]]

\* lines 94-95: user.last_login = datetime.now(timezone.utc); db.commit()
SetLastLogin(us, id, t) == [us EXCEPT ![id].last_login = Time(t)]

\* line 92, mutated: the password is not compared
MatchesAnyPassword(us, username, password) == FindUser(us, username) # 0

\* line 92: if user and user.password_hash == hash_password(password)
Matches(us, username, password) ==
    /\ FindUser(us, username) # 0
    /\ us[FindUser(us, username)].password_hash = hash_password(password)

\* lines 100-102, mutated: the exception leaves authenticate_user
AuthFailedEscapes(username, password) ==
    Escaped("authenticate_user", <<username, password>>)

\* lines 100-102 and 140-141: except Exception: st.error(...); return False,
\* False; login_page then reports the rejection
AuthFailed(username, password) ==
    Result("authenticate_user", <<username, password>>, <<FALSE, FALSE>>,
           <<"Authentication error", "Invalid username or password">>)

\* lines 99, 140-141: return False, False; st.error("Invalid username ...")
AuthRejected(username, password) ==
    Result("authenticate_user", <<username, password>>, <<FALSE, FALSE>>,
           <<"Invalid username or password">>)

\* lines 98, 134-139: return True, is_admin; st.success(...)
AuthAccepted(username, password, admin) ==
    Result("authenticate_user", <<username, password>>, <<TRUE, admin>>,
           <<"Welcome">>)

\* line 137, mutated: every user who logs in gets the admin flag
LoggedInAsAdmin(username, admin) ==
    [authenticated |-> TRUE, username |-> username, is_admin |-> TRUE]

\* lines 135-138: the session fields login_page sets on success
LoggedIn(username, admin) ==
    [authenticated |-> TRUE, username |-> username, is_admin |-> admin]

\* lines 145-148: the session fields logout sets
LoggedOut == [authenticated |-> FALSE, username |-> None, is_admin |-> FALSE]

\* lines 91-92, 99, mutated: a missing user is told apart from a wrong password
authenticate_query_unknown(us, username, password) ==
    {"raise"} \cup (IF Matches(us, username, password) THEN {"match"}
                    ELSE IF FindUser(us, username) = 0 THEN {"unknown"}
                    ELSE {"reject"})

\* the outcomes the query of authenticate_user can have (lines 91-92, 99-100)
authenticate_query(us, username, password) ==
    {"raise"} \cup (IF Matches(us, username, password) THEN {"match"} ELSE {"reject"})

\* login_page lines 132-133, authenticate_user lines 89-92 and 99-102:
\* the form is submitted and the user is looked up
AuthQuery(s, username, password) ==
    /\ op[s].pc = "idle"
    /\ LoginFormShown(s)
    /\ sess' = sess
    /\ \E o \in authenticate_query(users, username, password) :
          \/ /\ o = "raise"
             /\ op' = op
             /\ outcome' = [outcome EXCEPT ![s] = AuthFailed(username, password)]
          \/ /\ o = "reject"
             /\ op' = op
             /\ outcome' = [outcome EXCEPT ![s] = AuthRejected(username, password)]
          \/ /\ o = "match"
             /\ op' = [op EXCEPT ![s] = Running("auth_commit", username, password, FALSE)]
             /\ outcome' = [outcome EXCEPT ![s] = NoResult]
    /\ UNCHANGED <<users, now>>
    /\ UNCHANGED <<parse_vars, clean_vars>>

\* authenticate_user lines 94-95: the last login is set and committed
AuthCommit(s) ==
    /\ op[s].pc = "auth_commit"
    /\ \/ /\ op' = [op EXCEPT ![s] = Idle]
          /\ outcome' = [outcome EXCEPT ![s] = AuthFailed(op[s].username, op[s].password)]
          /\ UNCHANGED <<users, now>>
       \/ /\ op' = [op EXCEPT ![s].pc = "auth_refresh"]
          /\ users' = SetLastLogin(users, FindUser(users, op[s].username), now)
          /\ now' = Tick(now)
          /\ outcome' = outcome
    /\ UNCHANGED sess
    /\ UNCHANGED <<parse_vars, clean_vars>>

\* authenticate_user lines 97-98 and login_page lines 134-139: the session
\* factory of line 50 expires the row on commit, so user.is_admin is read
\* from the store again, which can fail like every other read
AuthRefresh(s) ==
    /\ op[s].pc = "auth_refresh"
    /\ op' = [op EXCEPT ![s] = Idle]
    /\ \/ /\ outcome' = [outcome EXCEPT ![s] = AuthFailed(op[s].username, op[s].password)]
          /\ sess' = sess
       \/ LET admin == users[FindUser(users, op[s].username)].is_admin
          IN  /\ outcome' = [outcome EXCEPT
                     ![s] = AuthAccepted(op[s].username, op[s].password, admin)]
              /\ sess' = [sess EXCEPT ![s] = LoggedIn(op[s].username, admin)]
    /\ UNCHANGED <<users, now>>
    /\ UNCHANGED <<parse_vars, clean_vars>>

\* lines 143-149 and 372-373: the logout button of the main application
Logout(s) ==
    /\ op[s].pc = "idle"
    /\ Get(sess[s], "authenticated", FALSE)
    /\ sess' = [sess EXCEPT ![s] = LoggedOut]
    /\ outcome' = [outcome EXCEPT ![s] = NoResult]
    /\ UNCHANGED <<users, now, op>>
    /\ UNCHANGED <<parse_vars, clean_vars>>

\* line 164: return False, "Only admins can add users"
AddRefused(username, password, make_admin) ==
    Result("add_user", <<username, password, make_admin>>,
           <<FALSE, "Only admins can add users">>, <<>>)

\* lines 171-172, 257-258: return False, "Username already exists"
AddExists(username, password, make_admin) ==
    Result("add_user", <<username, password, make_admin>>,
           <<FALSE, "Username already exists">>, <<"Username already exists">>)

\* lines 183-184, 257-258: return False, f"Error adding user: {str(e)}"
AddFailed(username, password, make_admin) ==
    Result("add_user", <<username, password, make_admin>>,
           <<FALSE, "Error adding user">>, <<"Error adding user">>)

\* lines 182, 253-254: return True, f"User {username} added successfully!"
AddDone(username, password, make_admin) ==
    Result("add_user", <<username, password, make_admin>>,
           <<TRUE, "User added successfully">>, <<"User added successfully">>)

\* line 367: the title of the main application
MainShown == Result("main_app", <<>>, NoValue, <<"LGA Data Analyzer">>)

\* lines 362-364, mutated: the page run never stops at the login page
PassesGateAlways(ss) == TRUE

\* lines 362-364: if not check_authentication(): login_page(); st.stop()
PassesGate(ss) == check_authentication(ss).authenticated

\* lines 362-376: a page run that reaches the main application (data input,
\* parsing, normalisation, charts, user management)
MainPage(s) ==
    /\ op[s].pc = "idle"
    /\ PassesGate(sess[s])
    /\ sess' = PageRun(s)
    /\ outcome' = [outcome EXCEPT ![s] = MainShown]
    /\ UNCHANGED <<users, now, op>>
    /\ UNCHANGED <<parse_vars, clean_vars>>

\* add_user lines 163-172 and 183-184: the gate and the check for the name
AddQuery(s, username, password, make_admin) ==
    /\ op[s].pc = "idle"
    /\ \/ /\ ~is_admin(sess[s])
          /\ op' = op
          /\ outcome' = [outcome EXCEPT ![s] = AddRefused(username, password, make_admin)]
       \/ /\ is_admin(sess[s])
          /\ op' = op
          /\ outcome' = [outcome EXCEPT ![s] = AddFailed(username, password, make_admin)]
       \/ /\ is_admin(sess[s])
          /\ FindUser(users, username) # 0
          /\ op' = op
          /\ outcome' = [outcome EXCEPT ![s] = AddExists(username, password, make_admin)]
       \/ /\ is_admin(sess[s])
          /\ FindUser(users, username) = 0
          /\ op' = [op EXCEPT ![s] = Running("add_insert", username, password, make_admin)]
          /\ outcome' = [outcome EXCEPT ![s] = NoResult]
    /\ UNCHANGED <<users, now, sess>>
    /\ UNCHANGED <<parse_vars, clean_vars>>

\* add_user lines 175-184: the new row is added and committed
AddInsert(s) ==
    LET username == op[s].username
        password == op[s].password
        make_admin == op[s].make_admin
        done == Insert(users, User(username, hash_password(password), make_admin, now))
    IN  /\ op[s].pc = "add_insert"
        /\ op' = [op EXCEPT ![s] = Idle]
        /\ \/ /\ outcome' = [outcome EXCEPT ![s] = AddFailed(username, password, make_admin)]
              /\ users' = users
           \/ /\ ~done.ok
              /\ outcome' = [outcome EXCEPT ![s] = AddFailed(username, password, make_admin)]
              /\ users' = users
           \/ /\ done.ok
              /\ outcome' = [outcome EXCEPT ![s] = AddDone(username, password, make_admin)]
              /\ users' = done.users
        /\ UNCHANGED <<now, sess>>
        /\ UNCHANGED <<parse_vars, clean_vars>>

\* lines 198-206: the list of dictionaries get_all_users builds
user_list(us) ==
    [k \in 1..Len(us) |-> [username   |-> us[k].username,
                           is_admin   |-> us[k].is_admin,
                           created_at |-> us[k].created_at,
                           last_login |-> us[k].last_login]]


\* lines 207-209: st.error(f"Error fetching users: ..."); return []
ListFailed == Result("get_all_users", <<>>, <<>>, <<"Error fetching users">>)

\* get_all_users lines 189-212
GetAllUsers(s) ==
    /\ op[s].pc = "idle"
    /\ \/ /\ ~is_admin(sess[s])
          /\ outcome' = [outcome EXCEPT ![s] = Result("get_all_users", <<>>, <<>>, <<>>)]
       \/ /\ is_admin(sess[s])
          /\ outcome' = [outcome EXCEPT ![s] = ListFailed]
       \/ /\ is_admin(sess[s])
          /\ outcome' = [outcome EXCEPT
                 ![s] = Result("get_all_users", <<>>, user_list(users), <<>>)]
    /\ UNCHANGED <<users, now, sess, op>>
    /\ UNCHANGED <<parse_vars, clean_vars>>

\* One browser session and the setup script, every input.
Solo == {"s1"}

AuthNext ==
    \/ \E p \in Solo \cup {Script} : BootQuery(p)
    \/ \E p \in Solo \cup {Script} : BootInsert(p)
    \/ \E s \in Solo : \E username \in Usernames, password \in Passwords :
          AuthQuery(s, username, password)
    \/ \E s \in Solo : AuthCommit(s)
    \/ \E s \in Solo : AuthRefresh(s)
    \/ \E s \in Solo : MainPage(s)
    \/ \E s \in Solo : Logout(s)
    \/ \E s \in Solo :
          \E username \in Usernames, password \in Passwords, make_admin \in BOOLEAN :
              AddQuery(s, username, password, make_admin)
    \/ \E s \in Solo : AddInsert(s)
    \/ \E s \in Solo : GetAllUsers(s)

SpecAuth == AuthInit /\ [][AuthNext]_vars

\* Two browser sessions on a store the setup script has initialised: both
\* log in as the administrator and add the same new user.
RaceInit ==
    /\ blocks = <<>> /\ raw_text = <<>> /\ lines = <<>> /\ i = 0
    /\ records = <<>> /\ pc = "idle"
    /\ heap = <<>> /\ arg = 0 /\ df_in = <<>> /\ df = 0 /\ ret = 0
    /\ cpc = "idle"
    /\ users = <<AdminUser(0)>>
    /\ now = 0
    /\ sess = [s \in Sessions |-> NewSession]
    /\ op = [p \in Procs |-> Idle]
    /\ outcome = [p \in Procs |-> NoResult]

RaceNext ==
    \/ \E s \in Sessions : BootQuery(s)
    \/ \E s \in Sessions : \E password \in Passwords : AuthQuery(s, "admin", password)
    \/ \E s \in Sessions : AuthCommit(s)
    \/ \E s \in Sessions : AuthRefresh(s)
    \/ \E s \in Sessions : \E make_admin \in BOOLEAN : AddQuery(s, "bob", "pw", make_admin)
    \/ \E s \in Sessions : AddInsert(s)

SpecRace == RaceInit /\ [][RaceNext]_vars

(***************************************************************************)
(* Vocabulary of the claims about the credential store.                    *)
(***************************************************************************)
Stored(us, username) == \E k \in 1..Len(us) : us[k].username = username
RowOf(us, username) == us[CHOOSE k \in 1..Len(us) : us[k].username = username]
CorrectCredentials(us, username, password) ==
    \E k \in 1..Len(us) :
        /\ us[k].username = username
        /\ us[k].password_hash = hash_password(password)

\* process s ends a call of fn in this step
Returns(s, fn) ==
    /\ op'[s].pc = "idle"
    /\ outcome'[s].fn = fn
    /\ op[s].pc # "idle" \/ outcome'[s] # outcome[s]

\* C12: authenticate_user called with a stored username and the password
\* whose hash is stored is never rejected: unless the store fails during
\* the call, it sets the last_login of that user's row to the current time,
\* changes no other row and no other field, and returns True with the
\* admin flag stored in that row.
C12_CorrectCredentialsAccepted ==
    [][\A s \in Sessions :
        LET username == op[s].username
            password == op[s].password
        IN  /\ \A u \in Usernames, p \in Passwords :
                  (Returns(s, "authenticate_user") /\ op[s].pc = "idle"
                      /\ CorrectCredentials(users, u, p)
                      /\ outcome'[s].args = <<u, p>>)
                  => outcome'[s] = AuthFailed(u, p)
            /\ (op[s].pc = "auth_commit" /\ op'[s].pc = "auth_refresh")
                  => /\ CorrectCredentials(users, username, password)
                     /\ Len(users') = Len(users)
                     /\ \A k \in 1..Len(users) :
                           IF users[k].username = username
                           THEN users'[k] = [users[k] EXCEPT !.last_login = Time(now)]
                           ELSE users'[k] = users[k]
            /\ (op[s].pc \in {"auth_commit", "auth_refresh"} /\ op'[s].pc = "idle")
                  => /\ Returns(s, "authenticate_user")
                     /\ outcome'[s].args = <<username, password>>
                     /\ users' = users
                     /\ outcome'[s] # AuthFailed(username, password)
                           => /\ op[s].pc = "auth_refresh"
                              /\ outcome'[s].value =
                                    <<TRUE, RowOf(users, username).is_admin>>
                              /\ RowOf(users, username).last_login # NULL
    ]_vars

C12_Witness ==
    /\ outcome["s1"] = AuthAccepted("bob", "pw", FALSE)
    /\ Len(users) = 2
    /\ users[1].username = "admin" /\ users[1].last_login = Time(0)
    /\ users[2].username = "bob" /\ users[2].last_login = Time(1)

\* C13: authenticate_user called with a stored username and a password
\* whose hash is not the stored one returns (False, False) in the step that
\* looked the user up, never reaches the commit, and leaves every row of
\* the store, last_login included, as it was.
C13_WrongPasswordRejected ==
    [][\A s \in Sessions :
        /\ \A u \in Usernames, p \in Passwords :
              (Returns(s, "authenticate_user") /\ outcome'[s].args = <<u, p>>
                  /\ Stored(users, u) /\ ~CorrectCredentials(users, u, p))
              => /\ op[s].pc = "idle"
                 /\ outcome'[s].value = <<FALSE, FALSE>>
                 /\ ~outcome'[s].raised
                 /\ users' = users
        /\ (op[s].pc = "idle" /\ op'[s].pc = "auth_commit")
              => /\ CorrectCredentials(users, op'[s].username, op'[s].password)
                 /\ users' = users
    ]_vars

C13_Witness ==
    /\ outcome["s1"] = AuthRejected("admin", "pw")
    /\ Len(users) = 1
    /\ users[1].username = "admin"
    /\ users[1].password_hash = hash_password("admin123")
    /\ users[1].last_login = Time(0)

\* what the user of the login page observes of a call
Response(o) == [value |-> o.value, shown |-> o.shown, raised |-> o.raised]

\* C14: a login attempt with a username that is not stored and an attempt
\* with a stored username and a wrong password have the same possible
\* outcomes, and each of them returns (False, False), shows "Invalid
\* username or password" (after the store's error message when the store
\* failed) and leaves the store and the session as they were.
C14_UnknownUserLikeWrongPassword ==
    [][/\ \A u \in Usernames, v \in Usernames, p \in Passwords, q \in Passwords :
             (~Stored(users, u) /\ Stored(users, v) /\ ~CorrectCredentials(users, v, q))
             => authenticate_query(users, u, p) = authenticate_query(users, v, q)
       /\ \A s \in Sessions, u \in Usernames, p \in Passwords :
             (Returns(s, "authenticate_user") /\ outcome'[s].args = <<u, p>>
                 /\ ~CorrectCredentials(users, u, p))
             => /\ users' = users
                /\ sess' = sess
                /\ now' = now
                /\ Response(outcome'[s]) \in
                      {[value  |-> <<FALSE, FALSE>>,
                        shown  |-> <<"Invalid username or password">>,
                        raised |-> FALSE],
                       [value  |-> <<FALSE, FALSE>>,
                        shown  |-> <<"Authentication error",
                                     "Invalid username or password">>,
                        raised |-> FALSE]}
    ]_vars

C14_Witness ==
    /\ outcome["s1"] = AuthRejected("bob", "admin123")
    /\ Stored(users, "admin")
    /\ ~Stored(users, "bob")

\* process p takes a step of a startup (init_database or setup_database)
StartupStep(p) ==
    \/ op[p].pc = "boot_insert" /\ op'[p].pc = "idle"
    \/ op[p].pc = "idle" /\ op'[p].pc = "boot_insert"
    \/ op[p].pc = "idle" /\ Returns(p, "init_database")
    \/ op[p].pc = "idle" /\ Returns(p, "setup_database")

AdminRows(us) == {k \in 1..Len(us) : us[k].username = "admin"}

\* C15: a startup that ends without a store error leaves exactly one user
\* named "admin", whose admin flag is true; the first startup on an empty
\* store inserts that row; a startup on a store that holds the row adds no
\* row and changes no row; and in no state are there two users named
\* "admin", also when startups of the application and of the setup script
\* overlap.
C15_DefaultAdminOnce ==
    [][/\ Cardinality(AdminRows(users')) <= 1
       /\ \A k \in AdminRows(users') : users'[k].is_admin = TRUE
       /\ \A p \in Procs :
             /\ (StartupStep(p) /\ op'[p].pc = "idle" /\ outcome'[p] = BootDone(p))
                   => Cardinality(AdminRows(users')) = 1
             /\ (StartupStep(p) /\ users = <<>> /\ outcome'[p] = BootDone(p))
                   => users' = <<User("admin", hash_password("admin123"), TRUE, now)>>
             /\ (StartupStep(p) /\ AdminRows(users) # {}) => users' = users
             /\ (StartupStep(p) /\ users' # users)
                   => /\ op[p].pc = "boot_insert"
                      /\ outcome'[p] = BootDone(p)
                      /\ users' = Append(users, User("admin", hash_password("admin123"), TRUE, now))
    ]_vars

C15_Witness ==
    /\ outcome["s1"] = InitDone
    /\ outcome[Script] = SetupDone
    /\ Len(users) = 1
    /\ users[1].username = "admin"
    /\ users[1].is_admin = TRUE

\* the admin flag of the session is present and true
FlagSet(s) == "is_admin" \in DOMAIN sess[s] /\ sess[s].is_admin = TRUE

\* C16: the result of add_user and of get_all_users depends on the store
\* only when the session's admin flag is true.  With the flag false or
\* absent add_user returns (False, "Only admins can add users") and
\* get_all_users returns the empty list, in one step that neither changes
\* the store nor can report a store failure; with the flag true neither
\* call is refused, whatever the store holds.
C16_GatedBySessionFlag ==
    [][\A s \in Sessions :
        /\ Returns(s, "add_user")
              => /\ ~FlagSet(s)
                    => /\ op[s].pc = "idle"
                       /\ outcome'[s].value = <<FALSE, "Only admins can add users">>
                       /\ ~outcome'[s].raised
                       /\ users' = users
                 /\ FlagSet(s)
                    => outcome'[s].value \in {<<TRUE, "User added successfully">>,
                                              <<FALSE, "Username already exists">>,
                                              <<FALSE, "Error adding user">>}
        /\ (op[s].pc = "idle" /\ op'[s].pc = "add_insert") => FlagSet(s)
        /\ Returns(s, "get_all_users")
              => /\ users' = users
                 /\ ~FlagSet(s)
                    => /\ outcome'[s].value = <<>>
                       /\ outcome'[s].shown = <<>>
                       /\ ~outcome'[s].raised
                 /\ FlagSet(s)
                    => \/ outcome'[s].value = user_list(users) /\ outcome'[s].shown = <<>>
                       \/ outcome'[s].value = <<>>
                             /\ outcome'[s].shown = <<"Error fetching users">>
    ]_vars

C16_Witness ==
    /\ sess["s1"] = LoggedIn("bob", FALSE)
    /\ outcome["s1"] = AddRefused("bob", "pw", TRUE)
    /\ Len(users) = 2

\* the fields of a row that no operation writes after the insert
Identity(row) ==
    <<row.username, row.password_hash, row.is_admin, row.created_at>>

\* C17: in every step no row is deleted and no existing row changes its
\* username, password hash, admin flag or creation timestamp; a last_login
\* is written only by the commit of an authenticate_user call for that
\* user, and every call that has written it returns success; a row is
\* added only by a startup or an add_user call that ends successfully.
C17_RowsChangeOnlyByLoginAndCreation ==
    [][/\ Len(users') >= Len(users)
       /\ \A k \in 1..Len(users) :
             /\ Identity(users'[k]) = Identity(users[k])
             /\ users'[k].last_login # users[k].last_login
                   => \E s \in Sessions :
                         /\ op[s].pc = "auth_commit"
                         /\ op'[s].pc = "auth_refresh"
                         /\ op[s].username = users[k].username
       /\ \A s \in Sessions :
             (op[s].pc = "auth_refresh" /\ op'[s].pc = "idle")
             => outcome'[s].value =
                   <<TRUE, RowOf(users, op[s].username).is_admin>>
       /\ Len(users') > Len(users)
             => /\ Len(users') = Len(users) + 1
                /\ \E p \in Procs :
                      \/ /\ op[p].pc = "boot_insert"
                         /\ outcome'[p] = BootDone(p)
                      \/ /\ op[p].pc = "add_insert"
                         /\ op'[p].pc = "idle"
                         /\ outcome'[p].value = <<TRUE, "User added successfully">>
    ]_vars

\* the messages of seq that report a failure of the store
StoreErrors(seq) ==
    SelectSeq(seq, LAMBDA m : m \in {"Authentication error", "Error adding user",
                                     "Error fetching users",
                                     "Database initialization error"})

\* what a session holds, a missing key read as the code reads it
SessionFields(ss) ==
    <<Get(ss, "authenticated", FALSE), Get(ss, "username", None),
      Get(ss, "is_admin", FALSE)>>

\* C18: no call is ever left by an exception.  A call of authenticate_user,
\* add_user, get_all_users or init_database that reports a failure of the
\* store reports it once and ends in the step that failed, which changes
\* neither the store nor what the session holds: authenticate_user returns (False,
\* False) and the session is still not authenticated, add_user returns
\* (False, "Error adding user"), get_all_users returns the empty list.  No
\* step of a call is taken a second time.
C18_StoreFailureReportedOnce ==
    [][\A s \in Sessions :
        /\ ~outcome'[s].raised
        /\ (op'[s].pc = "idle" /\ outcome'[s] # outcome[s]
               /\ StoreErrors(outcome'[s].shown) # <<>>)
              => /\ Len(StoreErrors(outcome'[s].shown)) = 1
                 /\ users' = users
                 /\ \A t \in Sessions : SessionFields(sess'[t]) = SessionFields(sess[t])
                 /\ outcome'[s].fn = "authenticate_user"
                       => /\ outcome'[s].value = <<FALSE, FALSE>>
                          /\ ~Get(sess'[s], "authenticated", FALSE)
                 /\ outcome'[s].fn = "add_user"
                       => outcome'[s].value = <<FALSE, "Error adding user">>
                 /\ outcome'[s].fn = "get_all_users" => outcome'[s].value = <<>>
                 /\ outcome'[s].fn = "init_database" => outcome'[s].value = NoValue
        /\ op'[s].pc # op[s].pc
              => <<op[s].pc, op'[s].pc>> \in
                    {<<"idle", "boot_insert">>, <<"boot_insert", "idle">>,
                     <<"idle", "auth_commit">>, <<"auth_commit", "auth_refresh">>,
                     <<"auth_commit", "idle">>, <<"auth_refresh", "idle">>,
                     <<"idle", "add_insert">>, <<"add_insert", "idle">>}
    ]_vars

C18_Witness ==
    /\ outcome["s1"] = AuthFailed("admin", "admin123")
    /\ Len(users) = 1
    /\ users[1].last_login = NULL
    /\ sess["s1"].authenticated = FALSE

RowsNamed(us, username) == {k \in 1..Len(us) : us[k].username = username}
Succeeded(o) == o.fn = "add_user" /\ o.value = <<TRUE, "User added successfully">>

\* C19: when two admin sessions run add_user for the same new username,
\* both may pass the check before either inserts (no lock is taken); in
\* every interleaving the store never holds two rows for the username, a
\* call returns success only in the step that adds the first row for it,
\* and an insert that finds the name taken is rejected by the store and
\* returns (False, "Error adding user") without changing the store.
C19_ConcurrentAddOneRow ==
    [][/\ \A u \in Usernames : Cardinality(RowsNamed(users', u)) <= 1
       /\ ~(Succeeded(outcome'["s1"]) /\ Succeeded(outcome'["s2"]))
       /\ \A s \in Sessions :
             /\ (Returns(s, "add_user") /\ Succeeded(outcome'[s]))
                   => /\ op[s].pc = "add_insert"
                      /\ RowsNamed(users, op[s].username) = {}
                      /\ Len(users') = Len(users) + 1
                      /\ users'[Len(users')].username = op[s].username
             /\ (op[s].pc = "add_insert" /\ op'[s].pc = "idle"
                    /\ RowsNamed(users, op[s].username) # {})
                   => /\ outcome'[s].value = <<FALSE, "Error adding user">>
                      /\ users' = users
             /\ (Returns(s, "add_user") /\ op[s].pc = "idle" /\ FlagSet(s)
                    /\ RowsNamed(users, outcome'[s].args[1]) # {})
                   => /\ outcome'[s].value \in {<<FALSE, "Username already exists">>,
                                                <<FALSE, "Error adding user">>}
                      /\ users' = users
    ]_vars

C19_Witness ==
    /\ Succeeded(outcome["s1"])
    /\ outcome["s1"].args[1] = "bob"
    /\ op["s2"].pc = "add_insert"
    /\ op["s2"].username = "bob"
    /\ Cardinality(RowsNamed(users, "bob")) = 1

(***************************************************************************)
(* C20: the input is N blocks, one of them (block d) lacking one line and  *)
(* the others well-formed: 8N-1 non-blank lines.  The parser does not skip *)
(* the damaged block: no iteration fails before the last 7 lines, so it    *)
(* emits N-1 records, record k built from lines 8k-7 .. 8k.  Records       *)
(* before d are the records of their blocks; every record k from d on is   *)
(* built from the last 7 lines of block k and the first line of block      *)
(* k+1.  The 7 lines left at the end are passed one line per iteration.    *)
(***************************************************************************)
Damaged(d) ==
    /\ d \in 1..Len(blocks)
    /\ blocks[d] = BlockMissing
    /\ \A k \in 1..Len(blocks) : k # d => WellFormedBlock(blocks[k])

C20_MissingLineShiftsBlocks ==
    [][\A d \in 1..Len(blocks) : Damaged(d) =>
          LET N == Len(blocks)
              L == Flatten(blocks)
          IN  /\ Len(L) = 8 * N - 1
              /\ (pc = "loop" /\ pc' = "loop")
                    => IF i < 8 * (N - 1)
                       THEN i' = i + 8 /\ Len(records') = Len(records) + 1
                       ELSE i' = i + 1 /\ records' = records
              /\ pc' = "done"
                    => /\ i' = 8 * N - 1
                       /\ Len(records') = N - 1
                       /\ \A k \in 1..(N - 1) :
                             /\ BuiltFrom(records'[k], L, 8 * (k - 1))
                             /\ k < d => SubSeq(L, 8 * k - 7, 8 * k) = blocks[k]
                             /\ k = d => SubSeq(L, 8 * k - 7, 8 * k)
                                            = blocks[k] \o <<blocks[k + 1][1]>>
                             /\ k > d => SubSeq(L, 8 * k - 7, 8 * k)
                                            = Tail(blocks[k]) \o <<blocks[k + 1][1]>>
                             /\ k >= d => /\ records'[k].Density = strip(blocks[k + 1][1])
                                          /\ records'[k].AreaKm = strip(blocks[k][Len(blocks[k])])
    ]_vars

C20_Witness ==
    /\ pc = "done"
    /\ blocks = <<BlockMissing, BlockA, BlockB>>
    /\ Len(records) = 2
    /\ records[1].Density = strip(BlockA[1])
    /\ records[2].LGA = strip(BlockA[2])
    /\ records[2].Density = strip(BlockB[1])
    /\ i = 23

\* s without its leading whitespace and with every other run of whitespace
\* replaced by one space
SingleSpaced(s) ==
    LET keep == SelectSeq(Positions(s), LAMBDA p :
                    ~IsSpace(s[p]) \/ (p > 1 /\ ~IsSpace(s[p - 1])))
    IN  [k \in 1..Len(keep) |-> IF IsSpace(s[keep[k]]) THEN " " ELSE s[keep[k]]]

Trimmed(s) == s = <<>> \/ (~IsSpace(s[1]) /\ ~IsSpace(s[Len(s)]))

(***************************************************************************)
(* C21: in the record emitted for the 8 lines b[1] .. b[8] at the cursor,  *)
(* HASC is the first run of non-whitespace characters of b[2], State is    *)
(* the rest of b[2] with its tokens separated by single spaces (empty when *)
(* b[2] is one token), Population is b[4] without its whitespace           *)
(* characters, and LGA, Capital, Latitude, Longitude, AreaKm and Density   *)
(* are the trimmed lines b[1], b[3], b[5], b[6], b[7] and b[8].            *)
(***************************************************************************)
C21_RecordFields ==
    [][(pc = "loop" /\ Len(records') = Len(records) + 1) =>
          LET r == records'[Len(records')]
              b == SubSeq(lines, i + 1, i + 8)
              n == Len(r.HASC)
          IN  /\ Len(b) = 8
              /\ \A k \in 1..8 : b[k] # <<>> /\ Trimmed(b[k])
              /\ n >= 1 /\ n <= Len(b[2])
              /\ r.HASC = SubSeq(b[2], 1, n)
              /\ \A p \in 1..n : ~IsSpace(r.HASC[p])
              /\ n < Len(b[2]) => IsSpace(b[2][n + 1])
              /\ r.State = SingleSpaced(SubSeq(b[2], n + 1, Len(b[2])))
              /\ n = Len(b[2]) => r.State = <<>>
              /\ r.Population = SelectSeq(b[4], LAMBDA c : c \notin {" ", "\t", NL})
              /\ r.LGA = b[1] /\ r.Capital = b[3] /\ r.Latitude = b[5]
              /\ r.Longitude = b[6] /\ r.AreaKm = b[7] /\ r.Density = b[8]
    ]_vars

C21_Witness ==
    /\ pc = "done"
    /\ blocks = <<BlockA, BlockGarbage>>
    /\ Len(records) = 2
    /\ records[1].HASC = <<"a", ".", "b">>
    /\ records[1].State = <<"a", "b", " ", "b">>
    /\ records[1].Capital = <<"b", "a">>
    /\ records[1].Population = <<"1", "5", "6", "0", "0">>
    /\ records[2].HASC = <<"b">>
    /\ records[2].State = <<>>

Authenticated(ss) == "authenticated" \in DOMAIN ss /\ ss.authenticated = TRUE

\* C22: the main application is shown only to a session whose
\* authenticated flag is true.  The flag is not true in a new session (the
\* first page run sets it to false); it becomes true only in the step in
\* which authenticate_user returns success for stored credentials, and the
\* session then holds the submitted username and the returned admin flag;
\* a login that returns failure leaves the session as it was; the flag
\* stops being true only by logout, which sets authenticated to false,
\* username to None and the admin flag to false, after which the login page
\* is what a page run shows.
C22_MainAppBehindLogin ==
    [][\A s \in Sessions :
        /\ (outcome'[s] = MainShown /\ outcome[s] # MainShown) => Authenticated(sess[s])
        /\ ("authenticated" \notin DOMAIN sess[s] /\ sess'[s] # sess[s])
              => sess'[s] = [authenticated |-> FALSE]
        /\ (~Authenticated(sess[s]) /\ Authenticated(sess'[s]))
              => /\ op[s].pc = "auth_refresh"
                 /\ Returns(s, "authenticate_user")
                 /\ outcome'[s].value[1] = TRUE
                 /\ CorrectCredentials(users, outcome'[s].args[1], outcome'[s].args[2])
                 /\ sess'[s] = [authenticated |-> TRUE,
                                username      |-> outcome'[s].args[1],
                                is_admin      |-> outcome'[s].value[2]]
        /\ (Returns(s, "authenticate_user") /\ outcome'[s].value[1] = TRUE)
              => Authenticated(sess'[s])
        /\ (Returns(s, "authenticate_user") /\ outcome'[s].value[1] = FALSE)
              => sess'[s] = sess[s]
        /\ (Authenticated(sess[s]) /\ sess'[s] # sess[s])
              => /\ sess'[s] = [authenticated |-> FALSE, username |-> None,
                                is_admin |-> FALSE]
                 /\ op[s].pc = "idle" /\ op'[s].pc = "idle"
                 /\ users' = users
                 /\ ~PassesGate(sess'[s])
    ]_vars

C22_Witness ==
    /\ outcome["s1"] = MainShown
    /\ sess["s1"] = LoggedIn("bob", FALSE)
    /\ Len(users) = 2

(***************************************************************************)
(* C23: with L the number of non-blank lines of the input, the parser      *)
(* emits exactly L \div 8 records, record k (from 0) built from non-blank  *)
(* lines 8k .. 8k+7.  Every line it keeps has a token, so an iteration     *)
(* fails exactly when fewer than 8 lines are left after the cursor, which  *)
(* happens only at the last L % 8 cursor positions.                        *)
(***************************************************************************)
C23_RecordCount ==
    [][LET kept == SelectSeq(splitlines(raw_text), NonBlank)
           L == Len(kept)
       IN  /\ pc = "loop"
              => /\ Len(lines) = L
                 /\ \A k \in 1..L : split(lines[k]) # <<>>
           /\ (pc = "loop" /\ pc' = "loop")
              => /\ records' = records <=> L - i < 8
                 /\ records' = records => (i >= L - (L % 8) /\ i' = i + 1)
                 /\ records' # records => (i' = i + 8 /\ i = 8 * Len(records))
           /\ pc' = "done"
              => /\ Len(records') = L \div 8
                 /\ \A k \in 0..((L \div 8) - 1) : BuiltFrom(records'[k + 1], kept, 8 * k)
    ]_vars

C23_Witness ==
    /\ pc = "done"
    /\ blocks = <<BlockGap, BlockMissing, BlockGarbage>>
    /\ Len(lines) = 23
    /\ Len(records) = 2
    /\ records[2].LGA = BlockMissing[1]
    /\ records[2].Density = <<"b">>

\* The interpreter keeps running the loop: a call that can take a step
\* takes one.
SpecFair == Spec /\ WF_vars(ParseNext)

(***************************************************************************)
(* C24: the loop of parse_lga_text terminates.  The cursor starts at 0,    *)
(* strictly increases in every iteration, never exceeds the number of      *)
(* non-blank lines, and equals that number when the loop exits, which      *)
(* every call eventually does.                                             *)
(***************************************************************************)
C24_LoopTerminates ==
    /\ [][/\ pc' = "loop"
             => /\ i' >= 0
                /\ i' <= Len(lines')
                /\ Len(lines') = Len(SelectSeq(splitlines(raw_text), NonBlank))
          /\ (pc = "call" /\ pc' = "loop") => i' = 0
          /\ (pc = "loop" /\ pc' = "loop") => (i < Len(lines) /\ i' > i)
          /\ (pc = "loop" /\ pc' = "done") => (i = Len(lines) /\ i' = i)
         ]_vars
    /\ <>(pc = "done" /\ i = Len(lines))

C24_Witness ==
    /\ pc = "done"
    /\ blocks = <<BlockB, BlockBlank, BlockMissing>>
    /\ i = 15
    /\ Len(lines) = 15
    /\ Len(records) = 1

\* C25: in every state, a session whose admin flag is true is
\* authenticated, its username is the username of a stored row, and that
\* row's admin flag is true; a session that is not authenticated (it never
\* logged in successfully, or it logged out) has no admin flag or the flag
\* false, and a session that is authenticated holds the admin flag of the
\* row of its username.
C25_SessionFlagMatchesStore ==
    \A s \in Sessions :
        /\ FlagSet(s)
              => /\ Authenticated(sess[s])
                 /\ \E k \in 1..Len(users) :
                       /\ users[k].username = sess[s].username
                       /\ users[k].is_admin = TRUE
        /\ ~Authenticated(sess[s])
              => /\ Get(sess[s], "is_admin", FALSE) = FALSE
                 /\ sess[s] \in {<<>>, [authenticated |-> FALSE],
                                 [authenticated |-> FALSE, username |-> None,
                                  is_admin |-> FALSE]}
        /\ Authenticated(sess[s])
              => \E k \in 1..Len(users) :
                    /\ users[k].username = sess[s].username
                    /\ users[k].is_admin = sess[s].is_admin

C25_Witness ==
    /\ sess["s1"] = LoggedIn("bob", TRUE)
    /\ Len(users) = 2
    /\ users[2].username = "bob"
    /\ users[2].is_admin = TRUE
    /\ outcome["s1"] = ListFailed

\* C26: the step in which add_user(u, p, a) returns success is taken by a
\* session whose admin flag is true and leaves exactly one row for u, with
\* the hash of p, the admin flag a and a NULL last_login.  The hash and the
\* admin flag of a row never change, so from then on, unless the store
\* fails during the call, authenticate_user(u, q) returns (True, a) when q
\* has the stored hash and (False, False) when it has another one, and
\* add_user(u, ...) called once the row is there returns (False, "Username
\* already exists") and changes nothing.
C26_AddThenAuthenticate ==
    [][\A s \in Sessions :
        /\ (Returns(s, "add_user") /\ Succeeded(outcome'[s]))
              => LET u == outcome'[s].args[1]
                     p == outcome'[s].args[2]
                     a == outcome'[s].args[3]
                 IN  /\ FlagSet(s)
                     /\ RowsNamed(users, u) = {}
                     /\ Cardinality(RowsNamed(users', u)) = 1
                     /\ \A k \in RowsNamed(users', u) :
                           /\ users'[k].password_hash = hash_password(p)
                           /\ users'[k].is_admin = a
                           /\ users'[k].last_login = NULL
        /\ \A k \in 1..Len(users) :
              /\ Len(users') >= k
              /\ users'[k].username = users[k].username
              /\ users'[k].password_hash = users[k].password_hash
              /\ users'[k].is_admin = users[k].is_admin
        /\ \A k \in 1..Len(users) :
              (Returns(s, "authenticate_user")
                  /\ outcome'[s].args[1] = users[k].username
                  /\ StoreErrors(outcome'[s].shown) = <<>>)
              => IF users[k].password_hash = hash_password(outcome'[s].args[2])
                 THEN outcome'[s].value = <<TRUE, users[k].is_admin>>
                 ELSE outcome'[s].value = <<FALSE, FALSE>>
        /\ \A k \in 1..Len(users) :
              (Returns(s, "add_user") /\ op[s].pc = "idle" /\ FlagSet(s)
                  /\ outcome'[s].args[1] = users[k].username
                  /\ StoreErrors(outcome'[s].shown) = <<>>)
              => /\ outcome'[s].value = <<FALSE, "Username already exists">>
                 /\ users' = users
    ]_vars

C26_Witness ==
    /\ outcome["s1"] = AddExists("bob", "admin123", FALSE)
    /\ sess["s1"] = LoggedIn("bob", TRUE)
    /\ Len(users) = 2
    /\ users[2].username = "bob"
    /\ users[2].password_hash = hash_password("pw")
    /\ users[2].is_admin = TRUE
    /\ users[2].last_login # NULL

====
